---- MODULE Spec2Model ----
(***************************************************************************)
(* A model of three pieces of the Ghost admin code base:                   *)
(*   - the Recommendation entity (ghost/recommendations/src/               *)
(*     Recommendation.ts): create, validate, clean, plain, edit, delete;   *)
(*   - the hash router of admin-x-settings (RoutingProvider.tsx):          *)
(*     modalPaths, getHashPath, matchRoute, handleNavigation, updateRoute  *)
(*     and the hashchange handler;                                         *)
(*   - the newsletter add / edit modals as the acceptance test of the      *)
(*     newsletter settings drives them.                                    *)
(* JavaScript values are tagged records, so that undefined, null, strings, *)
(* URLs, dates, booleans and numbers can be told apart and compared.       *)
(***************************************************************************)
EXTENDS Integers, Sequences, FiniteSets, TLC

VARIABLES
    rec,          \* the Recommendation under observation, or NoRec
    now,          \* the wall clock, in seconds
    ops,          \* edit and delete calls made on rec so far
    createData,   \* the data of the create call that built rec
    call,         \* the last call: its name, arguments, outcome, rec before it
    hash,         \* window.location.hash, parsed: path segments and query
    events,       \* handleHashChange calls not yet run (mount, hashchange)
    route,        \* RoutingProvider's route state
    loadingModal, \* RoutingProvider's loadingModal state
    pending,      \* modal promises not yet resolved, oldest first
    shown,        \* the arguments of the last NiceModal.show, or NoModal
    external,     \* the last link handed to externalNavigate, or NoLink
    form,         \* the newsletter modal: which one is open, its name field
    toast,        \* the error toast on the page, or NoToast
    requests,     \* the add / edit requests sent to the API, oldest first
    saved         \* the last click on Create / Save: the modal, the name, the outcome

recVars == <<rec, now, ops, createData, call>>
routeVars == <<hash, events, route, loadingModal, pending, shown, external>>
newsVars == <<form, toast, requests, saved>>
vars == <<rec, now, ops, createData, call, hash, events, route, loadingModal, pending,
          shown, external, form, toast, requests, saved>>

----------------------------------------------------------------------------
(* JavaScript values *)

Undefined == [t |-> "undefined"]
Null == [t |-> "null"]
Str(s) == [t |-> "string", s |-> s]
Bool(b) == [t |-> "boolean", b |-> b]
Num(n) == [t |-> "number", n |-> n]
Url(base, search, h) == [t |-> "URL", base |-> base, search |-> search, hash |-> h]
Date(sec, ms) == [t |-> "Date", sec |-> sec, ms |-> ms]

\* x ?? y
Coalesce(x, y) == IF x = Undefined \/ x = Null THEN y ELSE x

\* obj.key of a plain object: undefined when the key is absent
Get(obj, key) == IF key \in DOMAIN obj THEN obj[key] ELSE Undefined

\* s.length of a string value
Length(v) == Len(v.s)

\* a string of n characters
RECURSIVE Repeat(_, _)
Repeat(c, n) ==
    IF n = 0 THEN ""
    ELSE IF n % 2 = 1 THEN c \o Repeat(c, n - 1)
    ELSE LET half == Repeat(c, n \div 2) IN half \o half

----------------------------------------------------------------------------
(* Recommendation.ts *)

\* bounds of the model
MaxOps == 2
MaxClock == 1

\* the limit validate compares lengths with
MaxLength == 2000

NoRec == [t |-> "none"]
NoError == "none"

\* own enumerable properties of a Recommendation: the public fields, which
\* #clickCount, #subscriberCount and #deleted are not
PublicFields ==
    {"id", "title", "reason", "excerpt", "featuredImage", "favicon", "url",
     "oneClickSubscribe", "createdAt", "updatedAt"}

\* keys of EditRecommendation = Partial<Omit<RecommendationCreateData, id | createdAt | updatedAt>>
EditKeys ==
    {"title", "reason", "excerpt", "featuredImage", "favicon", "url",
     "oneClickSubscribe", "clickCount", "subscriberCount"}

\* JavaScript truthiness of a value
Truthy(v) ==
    CASE v.t = "undefined" -> FALSE
      [] v.t = "null" -> FALSE
      [] v.t = "string" -> Length(v) # 0
      [] v.t = "boolean" -> v.b
      [] v.t = "number" -> v.n # 0
      [] OTHER -> TRUE

\* A plausible slip: the empty-title check is missing.
validateNoEmptyCheck(properties) ==
    IF Length(properties.title) > MaxLength
    THEN "Title must be less than 2000 characters"
    ELSE IF Truthy(properties.reason) /\ Length(properties.reason) > MaxLength
    THEN "Reason must be less than 2000 characters"
    ELSE IF Truthy(properties.excerpt) /\ Length(properties.excerpt) > MaxLength
    THEN "Excerpt must be less than 2000 characters"
    ELSE NoError

\* static validate: the message of the ValidationError thrown, or NoError
validate(properties) ==
    IF Length(properties.title) = 0
    THEN "Title must not be empty"
    ELSE IF Length(properties.title) > MaxLength
    THEN "Title must be less than 2000 characters"
    ELSE IF Truthy(properties.reason) /\ Length(properties.reason) > MaxLength
    THEN "Reason must be less than 2000 characters"
    ELSE IF Truthy(properties.excerpt) /\ Length(properties.excerpt) > MaxLength
    THEN "Excerpt must be less than 2000 characters"
    ELSE NoError

cleanURL(url) == [url EXCEPT !.search = "", !.hash = ""]

\* date.setMilliseconds(0)
setMilliseconds0(date) == [date EXCEPT !.ms = 0]

clean(r) ==
    [r EXCEPT
        !.reason = IF @ # Null /\ Length(@) = 0 THEN Null ELSE @,
        !.url = cleanURL(@),
        !.createdAt = setMilliseconds0(@),
        !.updatedAt = IF @ = Null THEN Null ELSE setMilliseconds0(@)]

\* the private constructor
constructor(data) ==
    [id |-> data.id,
     title |-> data.title,
     reason |-> data.reason,
     excerpt |-> data.excerpt,
     featuredImage |-> data.featuredImage,
     favicon |-> data.favicon,
     url |-> data.url,
     oneClickSubscribe |-> data.oneClickSubscribe,
     createdAt |-> data.createdAt,
     updatedAt |-> data.updatedAt,
     clickCount |-> data.clickCount,
     subscriberCount |-> data.subscriberCount,
     deleted |-> FALSE]

\* static create; objectId is what ObjectId().toString() gives and date what new
\* Date() gives, should they be asked for. The URL fields are URL objects, which
\* UnsafeData hands back as they are.
create(data, objectId, date) ==
    LET d == [id |-> Coalesce(Get(data, "id"), objectId),
              title |-> data.title,
              reason |-> data.reason,
              excerpt |-> data.excerpt,
              featuredImage |-> data.featuredImage,
              favicon |-> data.favicon,
              url |-> data.url,
              oneClickSubscribe |-> data.oneClickSubscribe,
              createdAt |-> Coalesce(Get(data, "createdAt"), date),
              updatedAt |-> Coalesce(Get(data, "updatedAt"), Null),
              clickCount |-> Get(data, "clickCount"),
              subscriberCount |-> Get(data, "subscriberCount")]
        message == validate(d)
    IN  IF message # NoError
        THEN [threw |-> TRUE, message |-> message]
        ELSE [threw |-> FALSE, value |-> clean(constructor(d))]

\* get plain
plain(r) ==
    [id |-> r.id,
     title |-> r.title,
     reason |-> r.reason,
     excerpt |-> r.excerpt,
     featuredImage |-> r.featuredImage,
     favicon |-> r.favicon,
     url |-> r.url,
     oneClickSubscribe |-> r.oneClickSubscribe,
     createdAt |-> r.createdAt,
     updatedAt |-> r.updatedAt,
     clickCount |-> r.clickCount,
     subscriberCount |-> r.subscriberCount]

\* A plausible slip: if (properties[key]) instead of !== undefined.
mergeTruthy(newProperties, properties) ==
    [key \in DOMAIN newProperties \cup DOMAIN properties |->
        IF key \in DOMAIN properties /\ Truthy(properties[key])
        THEN properties[key]
        ELSE newProperties[key]]

\* the loop of edit: every own key of properties whose value is not undefined
\* is written over newProperties
merge(newProperties, properties) ==
    [key \in DOMAIN newProperties \cup DOMAIN properties |->
        IF key \in DOMAIN properties /\ properties[key] # Undefined
        THEN properties[key]
        ELSE newProperties[key]]

\* A plausible slip: the counts and the deleted flag as public fields.
objectAssignAll(target, source) ==
    [key \in DOMAIN target |-> source[key]]

\* Object.assign(this, created): the own enumerable properties of created are
\* copied, the private fields are not
objectAssign(target, source) ==
    [key \in DOMAIN target |->
        IF key \in PublicFields THEN source[key] ELSE target[key]]

\* edit: the outcome, and this afterwards
edit(r, properties, date) ==
    LET newProperties == [merge(plain(r), properties) EXCEPT !.updatedAt = date]
        created == create(newProperties, r.id, date)
    IN  IF created.threw
        THEN [threw |-> TRUE, message |-> created.message, this |-> r]
        ELSE [threw |-> FALSE, message |-> NoError,
              this |-> objectAssign(r, created.value)]

\* delete
delete(r) == [r EXCEPT !.deleted = TRUE]

----------------------------------------------------------------------------
(* The calls made on the Recommendation *)

Short == Repeat("a", MaxLength - 1)
Exact == Repeat("a", MaxLength)
Long == Repeat("a", MaxLength + 1)

SiteUrl == Url("https://site.example/", "?ref=home", "#top")
OtherUrl == Url("https://other.example/blog/", "", "")
ImageUrl == Url("https://site.example/cover.png", "?v=2", "")
IconUrl == Url("https://site.example/favicon.ico", "", "")

ObjectIds == {Str("650000000000000000000001")}
Millis == {0, 250}

BaseData ==
    [title |-> Str("News"), reason |-> Null, excerpt |-> Null,
     featuredImage |-> Null, favicon |-> Null, url |-> SiteUrl,
     oneClickSubscribe |-> Bool(FALSE)]

\* the data create is called with: BaseData with some fields replaced or added
CreateInputs ==
    {o @@ BaseData : o \in
        {[title |-> Str("News")],
         [title |-> Str("")],
         [title |-> Str(""), reason |-> Str(Long)],
         [title |-> Str(Short)],
         [title |-> Str(Exact)],
         [title |-> Str(Long)],
         [reason |-> Str("")],
         [reason |-> Str(Exact), excerpt |-> Str(Exact)],
         [reason |-> Str(Long)],
         [excerpt |-> Str(Long)],
         [id |-> Str("abc"), reason |-> Str("Good reads"), excerpt |-> Str(""),
          featuredImage |-> ImageUrl, favicon |-> IconUrl,
          oneClickSubscribe |-> Bool(TRUE), createdAt |-> Date(0, 250),
          clickCount |-> Num(5), subscriberCount |-> Num(3)],
         [clickCount |-> Num(0), updatedAt |-> Date(0, 250)]}}

\* the properties edit is called with
EditValues ==
    [title |-> {Undefined, Str(""), Str("Blog"), Str(Long)},
     reason |-> {Undefined, Null, Str(""), Str("Great"), Str(Long)},
     excerpt |-> {Undefined, Str("Summary"), Str(Long)},
     featuredImage |-> {Null, ImageUrl},
     favicon |-> {Undefined, IconUrl},
     url |-> {Undefined, OtherUrl},
     oneClickSubscribe |-> {Undefined, Bool(TRUE), Bool(FALSE)},
     clickCount |-> {Undefined, Num(9)},
     subscriberCount |-> {Num(7)}]

EditInputs ==
    {<<>>}
    \cup UNION {{(key :> v) : v \in EditValues[key]} : key \in EditKeys}
    \cup {[title |-> Str(""), reason |-> Str(Long)],
          [title |-> Str(""), excerpt |-> Str(Long), clickCount |-> Num(9)],
          [title |-> Str("Blog"), reason |-> Str(""), excerpt |-> Undefined,
           featuredImage |-> ImageUrl, favicon |-> Null, url |-> SiteUrl,
           oneClickSubscribe |-> Bool(TRUE), clickCount |-> Num(9),
           subscriberCount |-> Undefined]}

NoCall == [op |-> "none"]

RecInit ==
    /\ rec = NoRec
    /\ now = 0
    /\ ops = 0
    /\ createData = NoRec
    /\ call = NoCall

\* Recommendation.create(data)
Create ==
    /\ rec = NoRec
    /\ \E data \in CreateInputs, objectId \in ObjectIds, ms \in Millis :
        LET created == create(data, objectId, Date(now, ms))
        IN  /\ rec' = IF created.threw THEN NoRec ELSE created.value
            /\ createData' = IF created.threw THEN NoRec ELSE data
            /\ call' = [op |-> "create", args |-> data, threw |-> created.threw,
                        message |-> IF created.threw THEN created.message ELSE NoError,
                        before |-> NoRec]
    /\ UNCHANGED <<now, ops>>
    /\ UNCHANGED <<routeVars, newsVars>>

\* recommendation.edit(properties)
Edit ==
    /\ rec # NoRec
    /\ ops < MaxOps
    /\ \E properties \in EditInputs, ms \in Millis :
        LET done == edit(rec, properties, Date(now, ms))
        IN  /\ rec' = done.this
            /\ call' = [op |-> "edit", args |-> properties, threw |-> done.threw,
                        message |-> done.message, before |-> rec]
    /\ ops' = ops + 1
    /\ UNCHANGED <<now, createData>>
    /\ UNCHANGED <<routeVars, newsVars>>

\* recommendation.delete()
Delete ==
    /\ rec # NoRec
    /\ ops < MaxOps
    /\ rec' = delete(rec)
    /\ call' = [op |-> "delete", args |-> <<>>, threw |-> FALSE,
                message |-> NoError, before |-> rec]
    /\ ops' = ops + 1
    /\ UNCHANGED <<now, createData>>
    /\ UNCHANGED <<routeVars, newsVars>>

\* time passes
Tick ==
    /\ now < MaxClock
    /\ now' = now + 1
    /\ UNCHANGED <<rec, ops, createData, call>>
    /\ UNCHANGED <<routeVars, newsVars>>

----------------------------------------------------------------------------
(* RoutingProvider.tsx *)
(* A path string is the sequence of its segments, the parts between the    *)
(* slashes: 'users/show/a' is <<"users", "show", "a">> and the empty       *)
(* string is <<"">>. A pathname leaves out its leading slash.              *)

\* bounds of the model
MaxEvents == 2
MaxPending == 2

Path(segs) == [t |-> "string", segs |-> segs]
EmptyString == Path(<<"">>)

NoModal == [t |-> "none"]
NoLink == [t |-> "none"]

\* the object of the named groups of a match, or of no groups
Object(groups) == [t |-> "object", groups |-> groups]

modalPaths ==
    << <<Path(<<"design", "edit", "themes">>), "DesignAndThemeModal">>,
       <<Path(<<"design", "edit">>), "DesignAndThemeModal">>,
       <<Path(<<"design", "change-theme", "install">>), "DesignAndThemeModal">>,
       <<Path(<<"navigation", "edit">>), "NavigationModal">>,
       <<Path(<<"users", "invite">>), "InviteUserModal">>,
       <<Path(<<"users", "show", ":slug">>), "UserDetailModal">>,
       <<Path(<<"portal", "edit">>), "PortalModal">>,
       <<Path(<<"tiers", "add">>), "TierDetailModal">>,
       <<Path(<<"tiers", "show", ":id">>), "TierDetailModal">>,
       <<Path(<<"stripe-connect">>), "StripeConnectModal">>,
       <<Path(<<"newsletters", "add">>), "AddNewsletterModal">>,
       <<Path(<<"newsletters", "show", ":id">>), "NewsletterDetailModal">>,
       <<Path(<<"history", "view">>), "HistoryModal">>,
       <<Path(<<"history", "view", ":user">>), "HistoryModal">>,
       <<Path(<<"integrations", "zapier">>), "ZapierModal">>,
       <<Path(<<"integrations", "slack">>), "SlackModal">>,
       <<Path(<<"integrations", "amp">>), "AmpModal">>,
       <<Path(<<"integrations", "unsplash">>), "UnsplashModal">>,
       <<Path(<<"integrations", "firstpromoter">>), "FirstpromoterModal">>,
       <<Path(<<"integrations", "pintura">>), "PinturaModal">>,
       <<Path(<<"integrations", "add">>), "AddIntegrationModal">>,
       <<Path(<<"integrations", "show", ":id">>), "CustomIntegrationModal">>,
       <<Path(<<"recommendations", "add">>), "AddRecommendationModal">>,
       <<Path(<<"recommendations", "edit">>), "EditRecommendationModal">>,
       <<Path(<<"announcement-bar", "edit">>), "AnnouncementBarModal">>,
       <<Path(<<"embed-signup-form", "show">>), "EmbedSignupFormModal">> >>

\* the segments of the route definitions that /:(\w+)/ matches, with the name
\* the regular expression captures
ParamName == (":slug" :> "slug") @@ (":id" :> "id") @@ (":user" :> "user")

\* getHashPath: what follows the first '/settings-x/' of the pathname, or null
getHashPath(urlPath) ==
    LET at == {i \in 1..(Len(urlPath) - 1) : urlPath[i] = "settings-x"}
    IN  IF at = {} THEN Null
        ELSE LET first == CHOOSE i \in at : \A j \in at : i <= j
             IN  Path(SubSeq(urlPath, first + 1, Len(urlPath)))

\* the index of the one segment String.replace turns into a named group:
\* the first that /:(\w+)/ matches, 0 when there is none
ReplacedSegment(definition) ==
    LET params == {i \in 1..Len(definition) : definition[i] \in DOMAIN ParamName}
    IN  IF params = {} THEN 0 ELSE CHOOSE i \in params : \A j \in params : i <= j

\* A plausible slip: the regular expression without its closing '$'.
matchRouteUnanchored(pathname, routeDefinition) ==
    LET def == routeDefinition.segs
        segs == pathname.segs
        group == ReplacedSegment(def)
    IN  IF /\ Len(segs) >= Len(def)
           /\ \A i \in 1..Len(def) :
                IF i = group THEN segs[i] # "" ELSE segs[i] = def[i]
        THEN IF group = 0 THEN Object(<<>>)
             ELSE Object(ParamName[def[group]] :> segs[group])
        ELSE Undefined

\* matchRoute: '^' + definition with its first ':name' as (?<name>[^/]+) + '$'.
\* The slashes of the definition are literal and the group takes no slash, so
\* the match is segment by segment; match.groups || {} or undefined
matchRoute(pathname, routeDefinition) ==
    LET def == routeDefinition.segs
        segs == pathname.segs
        group == ReplacedSegment(def)
    IN  IF /\ Len(segs) = Len(def)
           /\ \A i \in 1..Len(def) :
                IF i = group THEN segs[i] # "" ELSE segs[i] = def[i]
        THEN IF group = 0 THEN Object(<<>>)
             ELSE Object(ParamName[def[group]] :> segs[group])
        ELSE Undefined

\* Object.entries(modalPaths).find(([modalPath]) => matchRoute(pathname, modalPath)) || []
\* as the index of the entry found, 0 for none
find(pathname) ==
    LET found == {i \in 1..Len(modalPaths) :
                    matchRoute(pathname, modalPaths[i][1]) # Undefined}
    IN  IF found = {} THEN 0 ELSE CHOOSE i \in found : \A j \in found : i <= j

\* handleNavigation, the hash read from window.location.hash being h. modal
\* is the promise made: the call of NiceModal.show it ends with, or undefined
handleNavigation(currentRoute, h) ==
    LET pathName == getHashPath(h.path)
        searchParams == h.search
        current == find(IF currentRoute = Undefined THEN EmptyString ELSE currentRoute)
        new == find(pathName)
        currentModalName == IF current = 0 THEN Undefined ELSE Str(modalPaths[current][2])
        modalName == IF new = 0 THEN Undefined ELSE Str(modalPaths[new][2])
    IN  IF pathName # Null /\ pathName # EmptyString
        THEN [pathName |-> pathName,
              changingModal |-> modalName # Undefined /\ modalName # currentModalName,
              modal |-> IF new # 0
                        THEN [modalName |-> modalName.s,
                              props |-> [pathName |-> pathName,
                                         params |-> matchRoute(pathName, modalPaths[new][1]),
                                         searchParams |-> searchParams]]
                        ELSE Undefined]
        ELSE [pathName |-> EmptyString, changingModal |-> FALSE, modal |-> Undefined]

\* window.location.hash, parsed by new URL(hash.substring(1), domain): the
\* segments of url.pathname and url.searchParams
Hash(path, search) == [path |-> path, search |-> search]

NoSearch == <<>>
DesignTab == [tab |-> "design"]

\* the routes updateRoute is called with, the query of the route split off
Routes ==
    {[route |-> Path(<<"newsletters", "add">>), search |-> NoSearch],
     [route |-> Path(<<"newsletters", "show", "abc">>), search |-> DesignTab],
     [route |-> Path(<<"newsletters", "show", "">>), search |-> NoSearch],
     [route |-> Path(<<"users", "show", "a", "b">>), search |-> NoSearch],
     [route |-> Path(<<"history", "view">>), search |-> NoSearch],
     [route |-> Path(<<"history", "view", "jo">>), search |-> NoSearch],
     [route |-> Path(<<"general">>), search |-> NoSearch],
     [route |-> EmptyString, search |-> NoSearch]}

ExternalLinks == {[isExternal |-> TRUE, route |-> Path(<<"site">>)]}

\* the hash the page is opened with
InitialHashes ==
    {Hash(<<"">>, NoSearch),
     Hash(<<"dashboard">>, NoSearch),
     Hash(<<"settings-x">>, NoSearch),
     Hash(<<"settings-x", "newsletters", "add">>, NoSearch),
     Hash(<<"settings-x", "tiers", "show", "t1">>, DesignTab)}

\* the provider mounted: no route yet, the first handleHashChange about to run
RouteInit ==
    /\ hash \in InitialHashes
    /\ events = 1
    /\ route = Undefined
    /\ loadingModal = FALSE
    /\ pending = <<>>
    /\ shown = NoModal
    /\ external = NoLink

\* updateRoute(to) with an external link
UpdateRouteExternal ==
    /\ \E to \in ExternalLinks : external' = to
    /\ UNCHANGED <<hash, events, route, loadingModal, pending, shown>>
    /\ UNCHANGED <<recVars, newsVars>>

\* updateRoute(to) with a route; the browser queues a hashchange event when
\* the hash changes
UpdateRoute ==
    /\ events < MaxEvents
    /\ \E to \in Routes :
        LET newPath == to.route
            newHash == IF newPath # EmptyString
                       THEN Hash(<<"settings-x">> \o newPath.segs, to.search)
                       ELSE Hash(<<"settings-x">>, to.search)
        IN  /\ hash' = newHash
            /\ events' = IF newHash # hash THEN events + 1 ELSE events
    /\ UNCHANGED <<route, loadingModal, pending, shown, external>>
    /\ UNCHANGED <<recVars, newsVars>>

\* handleHashChange, on mount and on every hashchange event
HandleHashChange ==
    /\ events > 0
    /\ Len(pending) < MaxPending
    /\ LET result == handleNavigation(route, hash)
       IN  /\ IF result.modal # Undefined /\ result.changingModal
              THEN /\ loadingModal' = TRUE
                   /\ pending' = Append(pending, [call |-> result.modal, loading |-> TRUE])
              ELSE /\ loadingModal' = loadingModal
                   /\ pending' = IF result.modal # Undefined
                                 THEN Append(pending, [call |-> result.modal, loading |-> FALSE])
                                 ELSE pending
           /\ route' = result.pathName
    /\ events' = events - 1
    /\ UNCHANGED <<hash, shown, external>>
    /\ UNCHANGED <<recVars, newsVars>>

\* the import of the modals resolves for the oldest promise: NiceModal.show,
\* then setLoadingModal(false) when the handler chained it
ModalResolved ==
    /\ pending # <<>>
    /\ shown' = Head(pending).call
    /\ loadingModal' = IF Head(pending).loading THEN FALSE ELSE loadingModal
    /\ pending' = Tail(pending)
    /\ UNCHANGED <<hash, events, route, external>>
    /\ UNCHANGED <<recVars, newsVars>>

----------------------------------------------------------------------------
(* The newsletter modals, as the acceptance test drives them *)

\* bound of the model
MaxRequests == 2

NoToast == "none"
NoSave == [modal |-> "none"]

\* what the Name field is filled with
Names == {"", "New newsletter", "Updated newsletter"}

\* the name of the newsletter of the fixtures the edit modal is opened on
FixtureName == "Awesome newsletter"

NewsInit ==
    /\ form = [open |-> "none", name |-> "", error |-> ""]
    /\ toast = NoToast
    /\ requests = <<>>
    /\ saved = NoSave

\* click 'Add newsletter': add-newsletter-modal opens with an empty name
AddNewsletter ==
    /\ form.open = "none"
    /\ form' = [open |-> "add", name |-> "", error |-> ""]
    /\ UNCHANGED <<toast, requests, saved>>
    /\ UNCHANGED <<recVars, routeVars>>

\* click a newsletter of the list: newsletter-modal opens on it
ShowNewsletter ==
    /\ form.open = "none"
    /\ form' = [open |-> "edit", name |-> FixtureName, error |-> ""]
    /\ UNCHANGED <<toast, requests, saved>>
    /\ UNCHANGED <<recVars, routeVars>>

\* fill the Name field
FillName ==
    /\ form.open # "none"
    /\ \E name \in Names : form' = [form EXCEPT !.name = name]
    /\ UNCHANGED <<toast, requests, saved>>
    /\ UNCHANGED <<recVars, routeVars>>

\* A plausible slip: the name is not validated before the request is sent.
saveUnvalidated(f, sent) ==
    [form |-> [open |-> "edit", name |-> f.name, error |-> ""],
     toast |-> NoToast,
     requests |-> Append(sent, [request |-> IF f.open = "add" THEN "addNewsletter"
                                            ELSE "editNewsletter",
                                name |-> f.name]),
     accepted |-> TRUE]

\* the click on Create or Save of the open modal f, sent being the requests
\* made so far: an empty name is refused with a toast and a message in the
\* modal, any other name goes into the request, and newsletter-modal is the
\* modal open afterwards
save(f, sent) ==
    IF f.name = ""
    THEN [form |-> [f EXCEPT !.error = "Please enter a name"],
          toast |-> "Can't save newsletter",
          requests |-> sent,
          accepted |-> FALSE]
    ELSE [form |-> [open |-> "edit", name |-> f.name, error |-> ""],
          toast |-> NoToast,
          requests |-> Append(sent, [request |-> IF f.open = "add" THEN "addNewsletter"
                                                 ELSE "editNewsletter",
                                     name |-> f.name]),
          accepted |-> TRUE]

\* click Create (add modal) or Save (edit modal)
Save ==
    /\ form.open # "none"
    /\ Len(requests) < MaxRequests
    /\ LET done == save(form, requests)
       IN  /\ form' = done.form
           /\ toast' = IF done.toast # NoToast THEN done.toast ELSE toast
           /\ requests' = done.requests
           /\ saved' = [modal |-> form.open, name |-> form.name,
                        accepted |-> done.accepted]
    /\ UNCHANGED <<recVars, routeVars>>

\* click Cancel or Close
Cancel ==
    /\ form.open # "none"
    /\ form' = [open |-> "none", name |-> "", error |-> ""]
    /\ UNCHANGED <<toast, requests, saved>>
    /\ UNCHANGED <<recVars, routeVars>>

----------------------------------------------------------------------------
(* Specifications *)

RecNext == Create \/ Edit \/ Delete \/ Tick
RouteNext == UpdateRoute \/ UpdateRouteExternal \/ HandleHashChange \/ ModalResolved
NewsNext == AddNewsletter \/ ShowNewsletter \/ FillName \/ Save \/ Cancel

Init == RecInit /\ RouteInit /\ NewsInit

Next == RecNext \/ RouteNext \/ NewsNext

Spec == Init /\ [][Next]_vars

\* The three parts share no state: each is checked on its own, the other two
\* at rest (the settings page opened without a hash).
IdleInit == RecInit /\ RouteInit /\ NewsInit /\ hash = Hash(<<"">>, NoSearch)

RecommendationSpec == IdleInit /\ [][RecNext]_vars

RoutingSpec == Init /\ [][RouteNext]_vars

NewsletterSpec == IdleInit /\ [][NewsNext]_vars

----------------------------------------------------------------------------
(* Properties of Recommendation *)

\* the properties edit is documented to change
Editable ==
    {"title", "reason", "excerpt", "featuredImage", "favicon", "url",
     "oneClickSubscribe"}

\* what a value given for a property reads as once the recommendation is
\* cleaned: an empty reason is null, the url has no query and no fragment
Cleaned(key, v) ==
    IF key = "reason" /\ v = Str("") THEN Null
    ELSE IF key = "url" THEN Url(v.base, "", "")
    ELSE v

Given(properties, key) == key \in DOMAIN properties /\ properties[key] # Undefined

\* C1: after a successful edit every editable property given a value other
\* than undefined holds that value (cleaned), every editable property absent
\* or undefined keeps the value it had, and id and createdAt are unchanged.
EditChangesExactlyTheSpecified ==
    (call.op = "edit" /\ ~call.threw) =>
        /\ \A key \in Editable :
            rec[key] = IF Given(call.args, key)
                       THEN Cleaned(key, call.args[key])
                       ELSE call.before[key]
        /\ rec.id = call.before.id
        /\ rec.createdAt = call.before.createdAt

\* an edit that changed the title, emptied the reason to null, turned on
\* oneClickSubscribe and left the excerpt, given as undefined, as it was
EditedSomeKeptOthers ==
    /\ call.op = "edit"
    /\ ~call.threw
    /\ DOMAIN call.args = EditKeys
    /\ call.args.title = Str("Blog") /\ call.before.title # Str("Blog")
    /\ rec.title = Str("Blog")
    /\ call.args.reason = Str("") /\ call.before.reason # Null /\ rec.reason = Null
    /\ call.args.excerpt = Undefined /\ rec.excerpt = Str("")
    /\ call.before.oneClickSubscribe = Bool(TRUE) /\ rec.oneClickSubscribe = Bool(TRUE)
    /\ rec.updatedAt # call.before.updatedAt

\* C2: whatever edit and delete calls were made, clickCount and
\* subscriberCount read as the recommendation was created with.
CountsAreReadOnly ==
    rec # NoRec =>
        /\ rec.clickCount = Get(createData, "clickCount")
        /\ rec.subscriberCount = Get(createData, "subscriberCount")

\* a deleted recommendation created with 5 clicks, after an edit that asked
\* for 9 clicks
EditedCountsUnchanged ==
    /\ call.op = "edit"
    /\ ~call.threw
    /\ Given(call.args, "clickCount") /\ call.args.clickCount = Num(9)
    /\ rec.clickCount = Num(5)
    /\ rec.subscriberCount = Num(3)
    /\ rec.deleted

\* the title create or edit validates: the one given, or the one kept
MergedTitle ==
    IF call.op = "edit" /\ ~Given(call.args, "title")
    THEN call.before.title
    ELSE call.args.title

AcceptedAreShorterThanLimit ==
    rec # NoRec =>
        /\ Length(rec.title) < MaxLength
        /\ rec.reason # Null => Length(rec.reason) < MaxLength
        /\ rec.excerpt # Null => Length(rec.excerpt) < MaxLength

----------------------------------------------------------------------------
(* Properties of the routing *)

\* a hash path under /settings-x/
UnderSettingsX(h) ==
    Len(h.path) >= 2 /\ h.path[1] = "settings-x" /\ Tail(h.path) # <<"">>

\* the whole path is the entry: the same segments, any one non-empty segment
\* in the place of a ':name'
WholePathIs(segs, entry) ==
    /\ Len(segs) = Len(entry)
    /\ \A i \in 1..Len(entry) :
        IF entry[i] \in DOMAIN ParamName THEN segs[i] # "" ELSE segs[i] = entry[i]

Entries(segs) == {i \in 1..Len(modalPaths) : WholePathIs(segs, modalPaths[i][1].segs)}

\* the value of the ':name' segment, under name
ParamsOf(segs, entry) ==
    {<<ParamName[entry[i]], segs[i]>> : i \in {j \in 1..Len(entry) : entry[j] \in DOMAIN ParamName}}

AsPairs(object) == {<<k, object.groups[k]>> : k \in DOMAIN object.groups}

\* the show asked for is the one of entry i for the path segs and the query
ShowOf(show, i, segs, search) ==
    /\ show.modalName = modalPaths[i][2]
    /\ show.props.pathName = Path(segs)
    /\ AsPairs(show.props.params) = ParamsOf(segs, modalPaths[i][1].segs)
    /\ show.props.searchParams = search

\* C5: handling a navigation to a path under /settings-x/ makes the path the
\* route; when the whole path is an entry of modalPaths it asks for the modal
\* of that entry, with the path, the ':name' value and the query, and
\* otherwise asks for nothing and leaves loadingModal alone; and a modal
\* shown is always the one of the entry its path is.
NavigationShowsTheMappedModal ==
    /\ [][(events' = events - 1 /\ UnderSettingsX(hash)) =>
            LET segs == Tail(hash.path)
            IN  /\ route' = Path(segs)
                /\ IF Entries(segs) = {}
                   THEN pending' = pending /\ loadingModal' = loadingModal
                   ELSE /\ Len(pending') = Len(pending) + 1
                        /\ SubSeq(pending', 1, Len(pending)) = pending
                        /\ \E i \in Entries(segs) :
                            ShowOf(pending'[Len(pending')].call, i, segs, hash.search)]_vars
    /\ [][Len(pending') < Len(pending) => shown' = Head(pending).call]_vars
    /\ [](shown # NoModal =>
            \E i \in Entries(shown.props.pathName.segs) :
                ShowOf(shown, i, shown.props.pathName.segs, shown.props.searchParams))

\* newsletters/show/abc?tab=design is the route and NewsletterDetailModal is
\* shown for it
NewsletterDetailShown ==
    /\ route = Path(<<"newsletters", "show", "abc">>)
    /\ shown # NoModal
    /\ shown.modalName = "NewsletterDetailModal"
    /\ shown.props.pathName = route
    /\ shown.props.params = Object([id |-> "abc"])
    /\ shown.props.searchParams = DesignTab
    /\ pending = <<>>
    /\ ~loadingModal

----------------------------------------------------------------------------
(* Properties of the newsletter modals *)

====
